---- MODULE Spec2Model ----
(***************************************************************************)
(* Model of the chess-cards scripts: the ordered-list markup transformer   *)
(* (convert_ordered_list_to_html), the board-state extraction              *)
(* (svg_str_to_board_state) and the batch run of cards.py against an Anki  *)
(* collection.                                                             *)
(*                                                                         *)
(* A Python str is modelled as a sequence of one-character strings.  In    *)
(* the batch model some atoms of a sequence stand for a whole chunk of     *)
(* text whose content no code of the repository looks into (a fen, the     *)
(* board drawing produced by the chess library, a solution text).          *)
(***************************************************************************)
EXTENDS Integers, Sequences, FiniteSets, TLC

VARIABLES
    \* convert_ordered_list_to_html: the argument as passed, the local
    \* variables of the function, the position in it and its outcome
    arg, string, matches, i, new_string, pc, outcome,
    \* svg_str_to_board_state: the argument, the local L, the position in
    \* the function and its outcome
    svg, L, svg_pc, board_state,
    \* cards.py: the yaml file, the Anki collection, the run options and the
    \* number of runs started
    fen_file, col, colorchoice, runs,
    \* cards.py: the position in the script and the script's variables
    script_pc, puzzle_dict, idx, puzzles, num_puzzles, deck_idx, card_set,
    color_i, cnt, card_idx, stdout, error

list_vars == <<arg, string, matches, i, new_string, pc, outcome>>

svg_vars == <<svg, L, svg_pc, board_state>>

env_vars == <<fen_file, col, colorchoice, runs>>

script_vars == <<script_pc, puzzle_dict, idx, puzzles, num_puzzles, deck_idx, card_set,
                 color_i, cnt, card_idx, stdout, error>>

vars == <<list_vars, svg_vars, env_vars, script_vars>>

----------------------------------------------------------------------------
(* Bounds *)

\* number of tokens (single characters or whole markers) of an input of
\* convert_ordered_list_to_html
MaxTok == 4

\* number of tokens (single characters or whole delimiters) of an input of
\* svg_str_to_board_state
MaxSvgTok == 5

\* number of cards of the template yaml file (cards.py -t NumCards)
NumCards == 2

\* number of runs of cards.py against the collection
MaxRuns == 2

----------------------------------------------------------------------------
(* Python string primitives *)

None == "None"

Letters ==
    {"A","B","C","D","E","F","G","H","I","J","K","L","M",
     "N","O","P","Q","R","S","T","U","V","W","X","Y","Z",
     "a","b","c","d","e","f","g","h","i","j","k","l","m",
     "n","o","p","q","r","s","t","u","v","w","x","y","z"}

Digits == {"0","1","2","3","4","5","6","7","8","9"}

\* the class \w of the re module
WordChars == Letters \cup Digits \cup {"_"}

\* s[from:] , 1-based
Drop(s, n) == SubSeq(s, n + 1, Len(s))

\* does sep occur in s at position p (1-based)?
OccursAt(s, sep, p) ==
    /\ p >= 1
    /\ p + Len(sep) - 1 <= Len(s)
    /\ SubSeq(s, p, p + Len(sep) - 1) = sep

\* str.find: the first position at or after p where sep occurs, 0 if none
RECURSIVE Find(_, _, _)
Find(s, sep, p) ==
    IF p + Len(sep) - 1 > Len(s) THEN 0
    ELSE IF OccursAt(s, sep, p) THEN p
    ELSE Find(s, sep, p + 1)

\* str.split(sep): the pieces between the occurrences of sep, scanned left
\* to right without overlap
RECURSIVE Split(_, _)
Split(s, sep) ==
    LET p == Find(s, sep, 1)
    IN  IF p = 0 THEN <<s>>
        ELSE <<SubSeq(s, 1, p - 1)>> \o Split(Drop(s, p + Len(sep) - 1), sep)

\* does the pattern \(\w\) match s at position p?
MarkerAt(s, p) ==
    /\ p >= 1
    /\ p + 2 <= Len(s)
    /\ s[p] = "("
    /\ s[p + 1] \in WordChars
    /\ s[p + 2] = ")"

\* re.findall('\((\w)\)', s): the group of every match, scanned left to
\* right, a match consuming its three characters
RECURSIVE FindAllFrom(_, _)
FindAllFrom(s, p) ==
    IF p + 2 > Len(s) THEN <<>>
    ELSE IF MarkerAt(s, p) THEN <<s[p + 1]>> \o FindAllFrom(s, p + 3)
    ELSE FindAllFrom(s, p + 1)

FindAll(s) == FindAllFrom(s, 1)

\* '({})'.format(c)
MarkerText(c) == <<"(", c, ")">>

----------------------------------------------------------------------------
(* convert_ordered_list_to_html *)

\* '<ol type="A"><li>'
OlOpen == <<"<","o","l"," ","t","y","p","e","=","\"","A","\"",">","<","l","i",">">>

\* '</li><li>'
LiSep == <<"<","/","l","i",">","<","l","i",">">>

\* '</li></ol>'
OlClose == <<"<","/","l","i",">","<","/","o","l",">">>

\* ConvertStart without the test of the first marker
ConvertStart_NoFirstCheck ==
    /\ pc = "start"
    /\ LET m == FindAll(string)
       IN  /\ matches' = m
           /\ IF Len(m) < 2
              THEN /\ pc' = "returned"
                   /\ outcome' = string
              ELSE /\ pc' = "loop"
                   /\ outcome' = outcome
    /\ UNCHANGED <<arg, string, i, new_string>>
    /\ UNCHANGED <<svg_vars, env_vars, script_vars>>

\* lines 77-81: find the markers; fewer than two returns the argument,
\* a first marker other than A raises
ConvertStart ==
    /\ pc = "start"
    /\ LET m == FindAll(string)
       IN  /\ matches' = m
           /\ IF Len(m) < 2
              THEN /\ pc' = "returned"
                   /\ outcome' = string
              ELSE IF m[1] # "A"
              THEN /\ pc' = "raised"
                   /\ outcome' = <<"Expected (A) for first list item, got ", m[1]>>
              ELSE /\ pc' = "loop"
                   /\ outcome' = outcome
    /\ UNCHANGED <<arg, string, i, new_string>>
    /\ UNCHANGED <<svg_vars, env_vars, script_vars>>

\* str.split(sep, 1): a split at the first occurrence of sep only
SplitOnce(s, sep) ==
    LET p == Find(s, sep, 1)
    IN  IF p = 0 THEN <<s>>
        ELSE <<SubSeq(s, 1, p - 1), Drop(s, p + Len(sep) - 1)>>

\* ConvertLoop splitting at the first occurrence of the marker only
ConvertLoop_SplitsOnce ==
    /\ pc = "loop"
    /\ i < Len(matches)
    /\ LET c == matches[i + 1]
           numitems == Len(matches)
           tmp == SplitOnce(string, MarkerText(c))
       IN  IF Len(tmp) # 2
           THEN /\ pc' = "raised"
                /\ outcome' = <<"Unable to split the following string at ", c>>
                /\ UNCHANGED <<string, new_string, i>>
           ELSE /\ string' = tmp[2]
                /\ new_string' =
                      new_string \o tmp[1] \o
                      (IF i = 0 THEN OlOpen
                       ELSE IF i < numitems - 1 THEN LiSep
                       ELSE LiSep \o tmp[2] \o OlClose)
                /\ i' = i + 1
                /\ UNCHANGED <<pc, outcome>>
    /\ UNCHANGED <<arg, matches>>
    /\ UNCHANGED <<svg_vars, env_vars, script_vars>>

\* ConvertLoop with the text after the last marker left out of the last item
ConvertLoop_DropsTail ==
    /\ pc = "loop"
    /\ i < Len(matches)
    /\ LET c == matches[i + 1]
           numitems == Len(matches)
           tmp == Split(string, MarkerText(c))
       IN  IF Len(tmp) # 2
           THEN /\ pc' = "raised"
                /\ outcome' = <<"Unable to split the following string at ", c>>
                /\ UNCHANGED <<string, new_string, i>>
           ELSE /\ string' = tmp[2]
                /\ new_string' =
                      new_string \o tmp[1] \o
                      (IF i = 0 THEN OlOpen
                       ELSE IF i < numitems - 1 THEN LiSep
                       ELSE LiSep \o OlClose)
                /\ i' = i + 1
                /\ UNCHANGED <<pc, outcome>>
    /\ UNCHANGED <<arg, matches>>
    /\ UNCHANGED <<svg_vars, env_vars, script_vars>>

\* ConvertLoop with the last iteration taken for a middle one (i < numitems)
ConvertLoop_NeverCloses ==
    /\ pc = "loop"
    /\ i < Len(matches)
    /\ LET c == matches[i + 1]
           numitems == Len(matches)
           tmp == Split(string, MarkerText(c))
       IN  IF Len(tmp) # 2
           THEN /\ pc' = "raised"
                /\ outcome' = <<"Unable to split the following string at ", c>>
                /\ UNCHANGED <<string, new_string, i>>
           ELSE /\ string' = tmp[2]
                /\ new_string' =
                      new_string \o tmp[1] \o
                      (IF i = 0 THEN OlOpen
                       ELSE IF i < numitems THEN LiSep
                       ELSE LiSep \o tmp[2] \o OlClose)
                /\ i' = i + 1
                /\ UNCHANGED <<pc, outcome>>
    /\ UNCHANGED <<arg, matches>>
    /\ UNCHANGED <<svg_vars, env_vars, script_vars>>

\* lines 85-97: one iteration of the for loop, i counting from 0
ConvertLoop ==
    /\ pc = "loop"
    /\ i < Len(matches)
    /\ LET c == matches[i + 1]
           numitems == Len(matches)
           tmp == Split(string, MarkerText(c))
       IN  IF Len(tmp) # 2
           THEN /\ pc' = "raised"
                /\ outcome' = <<"Unable to split the following string at ", c>>
                /\ UNCHANGED <<string, new_string, i>>
           ELSE /\ string' = tmp[2]
                /\ new_string' =
                      new_string \o tmp[1] \o
                      (IF i = 0 THEN OlOpen
                       ELSE IF i < numitems - 1 THEN LiSep
                       ELSE LiSep \o tmp[2] \o OlClose)
                /\ i' = i + 1
                /\ UNCHANGED <<pc, outcome>>
    /\ UNCHANGED <<arg, matches>>
    /\ UNCHANGED <<svg_vars, env_vars, script_vars>>

\* line 98
ConvertReturn ==
    /\ pc = "loop"
    /\ i = Len(matches)
    /\ pc' = "returned"
    /\ outcome' = new_string
    /\ UNCHANGED <<arg, string, matches, i, new_string>>
    /\ UNCHANGED <<svg_vars, env_vars, script_vars>>

----------------------------------------------------------------------------
(* Inputs of convert_ordered_list_to_html *)

\* single characters: parentheses, letters, a digit, the underscore, a space
Chars == {"(", ")", "A", "B", "1", "_", " "}

\* whole markers, so that inputs with three markers stay within MaxTok
Markers == {MarkerText("A"), MarkerText("B"), MarkerText("C")}

Tokens == {<<c>> : c \in Chars} \cup Markers

RECURSIVE Flatten(_)
Flatten(ts) == IF ts = <<>> THEN <<>> ELSE Head(ts) \o Flatten(Tail(ts))

TokInputs == UNION {{Flatten(ts) : ts \in [1..n -> Tokens]} : n \in 0..MaxTok}

\* "(A) foo (B) bar (C) baz"
FooBarBaz ==
    <<"(","A",")"," ","f","o","o"," ","(","B",")"," ","b","a","r"," ",
      "(","C",")"," ","b","a","z">>

\* "(B) foo (A) bar"
BFooABar ==
    <<"(","B",")"," ","f","o","o"," ","(","A",")"," ","b","a","r">>

\* "1 (A)a(B)b(C)c": text before the list and three items
PreambleList ==
    <<"1"," ","(","A",")","a","(","B",")","b","(","C",")","c">>

ListInputs == TokInputs \cup {FooBarBaz, BFooABar, PreambleList}

\* no call of convert_ordered_list_to_html
ListIdle ==
    /\ arg = <<>>
    /\ string = <<>>
    /\ matches = <<>>
    /\ i = 0
    /\ new_string = <<>>
    /\ pc = "idle"
    /\ outcome = <<>>

\* no call of svg_str_to_board_state
SvgIdle ==
    /\ svg = <<>>
    /\ L = <<>>
    /\ svg_pc = "idle"
    /\ board_state = <<>>

\* cards.py is not run
ScriptIdle ==
    /\ fen_file = <<>>
    /\ col = <<>>
    /\ colorchoice = "all"
    /\ runs = 0
    /\ script_pc = "idle"
    /\ puzzle_dict = <<>>
    /\ idx = 0
    /\ puzzles = <<>>
    /\ num_puzzles = 0
    /\ deck_idx = 0
    /\ card_set = {}
    /\ color_i = 0
    /\ cnt = 0
    /\ card_idx = 0
    /\ stdout = <<>>
    /\ error = None

ListInit ==
    /\ arg \in ListInputs
    /\ string = arg
    /\ matches = <<>>
    /\ i = 0
    /\ new_string = <<>>
    /\ pc = "start"
    /\ outcome = <<>>
    /\ SvgIdle
    /\ ScriptIdle

ListNext == ConvertStart \/ ConvertLoop \/ ConvertReturn

ListSpec == ListInit /\ [][ListNext]_vars

----------------------------------------------------------------------------
(* Properties of convert_ordered_list_to_html *)

Finished == pc \in {"returned", "raised"}

RECURSIVE SortedSeq(_)
SortedSeq(S) ==
    IF S = {} THEN <<>>
    ELSE LET m == CHOOSE x \in S : \A y \in S : x <= y
         IN  <<m>> \o SortedSeq(S \ {m})

\* where a parenthesised word character stands in s, in increasing order
MarkerPositions(s) == SortedSeq({p \in 1..Len(s) : MarkerAt(s, p)})

\* the marker characters of s, left to right
MarkerChars(s) ==
    LET ps == MarkerPositions(s) IN [k \in 1..Len(ps) |-> s[ps[k] + 1]]

\* how many single letters in parentheses s holds
LetteredMarkerCount(s) ==
    Cardinality({p \in 1..Len(s) : MarkerAt(s, p) /\ s[p + 1] \in Letters})

\* the text that follows the k-th marker of s, up to the next marker or to
\* the end of s
Segment(s, k) ==
    LET ps == MarkerPositions(s)
    IN  SubSeq(s, ps[k] + 3, IF k < Len(ps) THEN ps[k + 1] - 1 ELSE Len(s))

Preamble(s) == SubSeq(s, 1, MarkerPositions(s)[1] - 1)

RECURSIVE Join(_, _)
Join(parts, sep) ==
    IF Len(parts) = 0 THEN <<>>
    ELSE IF Len(parts) = 1 THEN parts[1]
    ELSE parts[1] \o sep \o Join(Tail(parts), sep)

LiOpen == <<"<","l","i",">">>

CountOf(s, sep) == Cardinality({p \in 1..Len(s) : OccursAt(s, sep, p)})

IsListMarkup(s) == CountOf(s, OlOpen) > 0

Alphabetic == <<"A","B","C","D","E","F","G","H","I","J","K","L","M",
                "N","O","P","Q","R","S","T","U","V","W","X","Y","Z">>

Str_foo == <<"f","o","o">>
Str_bar == <<"b","a","r">>
Str_baz == <<"b","a","z">>
Sp == <<" ">>

\* C1: an input with zero or one lettered marker (a single letter in
\* parentheses) is returned unchanged and no error is raised.
C1_FewLetteredMarkersUnchanged ==
    (Finished /\ LetteredMarkerCount(arg) <= 1)
        => (pc = "returned" /\ outcome = arg)

\* C2 as stated: "(A) foo (B) bar (C) baz" becomes one ordered list, nothing
\* before it, whose items are exactly "foo ", "bar " and "baz".
C2_ItemsWithoutLeadingSpace ==
    (Finished /\ arg = FooBarBaz)
        => /\ pc = "returned"
           /\ outcome = OlOpen \o Str_foo \o Sp \o LiSep \o Str_bar \o Sp
                          \o LiSep \o Str_baz \o OlClose

\* C2 amended: "(A) foo (B) bar (C) baz" becomes one ordered list, nothing
\* before it, whose items are exactly " foo ", " bar " and " baz": each item
\* keeps the space that follows its marker.
C2_ItemsVerbatim ==
    (Finished /\ arg = FooBarBaz)
        => /\ pc = "returned"
           /\ outcome = OlOpen \o Sp \o Str_foo \o Sp \o LiSep \o Sp \o Str_bar
                          \o Sp \o LiSep \o Sp \o Str_baz \o OlClose

C2_Witness == pc = "returned" /\ arg = FooBarBaz /\ Len(matches) = 3

\* C3 as stated: list markup is returned only when the markers found are
\* A, B, C, ... in order, none skipped, repeated or out of order.
C3_MarkersAlphabetic ==
    (pc = "returned" /\ IsListMarkup(outcome))
        => LET m == MarkerChars(arg)
           IN  \A k \in 1..Len(m) : m[k] = Alphabetic[k]

\* C3 amended: list markup is returned only when the first marker found is
\* (A) and no marker character is repeated among the markers found; the
\* later markers need not follow in alphabetic order.
C3_FirstIsADistinct ==
    (pc = "returned" /\ IsListMarkup(outcome))
        => LET m == MarkerChars(arg)
           IN  /\ Len(m) >= 2
               /\ m[1] = "A"
               /\ \A j, k \in 1..Len(m) : j # k => m[j] # m[k]

\* list markup returned for markers that are not in alphabetic order
C3_Witness ==
    /\ pc = "returned"
    /\ IsListMarkup(outcome)
    /\ MarkerChars(arg) = <<"A", "C", "B">>

\* C4: with n >= 2 markers and no error the result is the text before the
\* first marker, the list opening, the n segments joined by the item
\* separator and the list closing; it has n items and holds no marker.
C4_ListShape ==
    (pc = "returned" /\ Len(MarkerPositions(arg)) >= 2)
        => LET n == Len(MarkerPositions(arg))
           IN  /\ outcome = Preamble(arg) \o OlOpen
                              \o Join([k \in 1..n |-> Segment(arg, k)], LiSep)
                              \o OlClose
               /\ CountOf(outcome, LiOpen) = n
               /\ MarkerPositions(outcome) = <<>>

\* three markers, a preamble and text after the last marker
C4_Witness ==
    /\ pc = "returned"
    /\ Len(MarkerPositions(arg)) = 3
    /\ Preamble(arg) # <<>>
    /\ Segment(arg, 3) # <<>>

----------------------------------------------------------------------------
(* svg_str_to_board_state *)

\* 'pre'
Pre == <<"p", "r", "e">>

Max(a, b) == IF a >= b THEN a ELSE b
Min(a, b) == IF a <= b THEN a ELSE b

\* s[start:stop] of Python, 0-based, negative indices counted from the end
Slice(s, start, stop) ==
    LET n == Len(s)
        a == IF start < 0 THEN Max(n + start, 0) ELSE Min(start, n)
        b == IF stop < 0 THEN Max(n + stop, 0) ELSE Min(stop, n)
    IN  SubSeq(s, a + 1, b)

\* line 52
SvgSplit ==
    /\ svg_pc = "start"
    /\ L' = Split(svg, Pre)
    /\ svg_pc' = "split"
    /\ UNCHANGED <<svg, board_state>>
    /\ UNCHANGED <<list_vars, env_vars, script_vars>>

\* SvgRaise reporting the number of pieces instead of the number of 'pre'
SvgRaise_ReportsPieces ==
    /\ svg_pc = "split"
    /\ Len(L) # 3
    /\ svg_pc' = "raised"
    /\ board_state' = <<"Expected to find \"pre\" twice in string, got ", Len(L)>>
    /\ UNCHANGED <<svg, L>>
    /\ UNCHANGED <<list_vars, env_vars, script_vars>>

\* lines 54-55
SvgRaise ==
    /\ svg_pc = "split"
    /\ Len(L) # 3
    /\ svg_pc' = "raised"
    /\ board_state' = <<"Expected to find \"pre\" twice in string, got ", Len(L) - 1>>
    /\ UNCHANGED <<svg, L>>
    /\ UNCHANGED <<list_vars, env_vars, script_vars>>

\* SvgReturn with the slice [1:-1]
SvgReturn_DropsOneTrailing ==
    /\ svg_pc = "split"
    /\ Len(L) = 3
    /\ svg_pc' = "returned"
    /\ board_state' = Slice(L[2], 1, -1)
    /\ UNCHANGED <<svg, L>>
    /\ UNCHANGED <<list_vars, env_vars, script_vars>>

\* line 56
SvgReturn ==
    /\ svg_pc = "split"
    /\ Len(L) = 3
    /\ svg_pc' = "returned"
    /\ board_state' = Slice(L[2], 1, -2)
    /\ UNCHANGED <<svg, L>>
    /\ UNCHANGED <<list_vars, env_vars, script_vars>>

SvgChars == {"p", "r", "e", "x", ">"}

\* what chess.svg writes between the two 'pre': the end of the opening tag,
\* the board, the start of the closing tag
PreContent == <<">", "x", "x", "<", "/">>

SvgTokens == {<<c>> : c \in SvgChars} \cup {Pre, PreContent}

SvgInputs == UNION {{Flatten(ts) : ts \in [1..n -> SvgTokens]} : n \in 0..MaxSvgTok}

SvgInit ==
    /\ svg \in SvgInputs
    /\ L = <<>>
    /\ svg_pc = "start"
    /\ board_state = <<>>
    /\ ListIdle
    /\ ScriptIdle

SvgNext == SvgSplit \/ SvgRaise \/ SvgReturn

SvgSpec == SvgInit /\ [][SvgNext]_vars

\* the text strictly between the first two occurrences of 'pre' in s
Between(s) ==
    LET ps == SortedSeq({p \in 1..Len(s) : OccursAt(s, Pre, p)})
    IN  SubSeq(s, ps[1] + 3, ps[2] - 1)

\* C5: a board state is returned exactly when 'pre' occurs twice in the
\* argument; with any other number of occurrences the call raises and the
\* message reports that number.
C5_ReturnsIffTwoPre ==
    svg_pc \in {"returned", "raised"} =>
        /\ (svg_pc = "returned") <=> (CountOf(svg, Pre) = 2)
        /\ svg_pc = "raised" => board_state[2] = CountOf(svg, Pre)

\* raised on three occurrences
C5_Witness == svg_pc = "raised" /\ CountOf(svg, Pre) = 3

\* C6 as stated: the board state is the text between the two 'pre' with one
\* leading character removed and nothing else removed.
C6_OnlyLeadingRemoved ==
    svg_pc = "returned" => board_state = Drop(Between(svg), 1)

\* C6 amended: the board state is the text between the two 'pre' with one
\* leading character and two trailing characters removed; it is empty when
\* fewer than four characters stand between them.
C6_LeadingAndTwoTrailingRemoved ==
    svg_pc = "returned" =>
        LET b == Between(svg)
        IN  /\ board_state = SubSeq(b, 2, Len(b) - 2)
            /\ Len(b) < 4 => board_state = <<>>

\* a board state of at least one character is returned
C6_Witness ==
    /\ svg_pc = "returned"
    /\ Len(Between(svg)) >= 4
    /\ board_state # <<>>

----------------------------------------------------------------------------
(* The two functions as operators, for the batch script *)

\* lines 85-98 of card_utils.py (121-134 of cards.py): the for loop from
\* iteration k on, acc being new_string
RECURSIVE ConvertFrom(_, _, _, _)
ConvertFrom(m, k, str, acc) ==
    IF k = Len(m) THEN [raised |-> FALSE, value |-> acc]
    ELSE LET tmp == Split(str, MarkerText(m[k + 1]))
         IN  IF Len(tmp) # 2 THEN [raised |-> TRUE, value |-> <<>>]
             ELSE ConvertFrom(m, k + 1, tmp[2],
                     acc \o tmp[1] \o
                     (IF k = 0 THEN OlOpen
                      ELSE IF k < Len(m) - 1 THEN LiSep
                      ELSE LiSep \o tmp[2] \o OlClose))

convert_ordered_list_to_html(s) ==
    LET m == FindAll(s)
    IN  IF Len(m) < 2 THEN [raised |-> FALSE, value |-> s]
        ELSE IF m[1] # "A" THEN [raised |-> TRUE, value |-> <<>>]
        ELSE ConvertFrom(m, 0, s, <<>>)

svg_str_to_board_state(s) ==
    LET parts == Split(s, Pre)
    IN  IF Len(parts) # 3 THEN [raised |-> TRUE, value |-> <<>>]
        ELSE [raised |-> FALSE, value |-> Slice(parts[2], 1, -2)]

\* strip_accents of card_utils, used by duplicate_finder.py: an accented
\* character (an atom such as "e-acute") becomes its unaccented ASCII
\* equivalent
Unaccent(c) ==
    CASE c = "e-acute" -> "e"
      [] c = "e-grave" -> "e"
      [] c = "a-grave" -> "a"
      [] c = "u-umlaut" -> "u"
      [] OTHER -> c

strip_accents(s) == [k \in 1..Len(s) |-> Unaccent(s[k])]

----------------------------------------------------------------------------
(* cards.py: rendering of a card *)

\* color_schemes, in the order of insertion
color_schemes ==
    <<<<"eeeed2", "6188b5">>, <<"f0d9b5", "b58863">>, <<"c8c8c8", "939393">>,
      <<"eeeed2", "769656">>, <<"eeeed2", "f27372">>, <<"eeeed2", "c0a2c7">>>>

ColorChoices == {"all", "blue"}

\* lines 201-206
scriptcolors(choice) ==
    IF choice = "all" THEN color_schemes ELSE <<color_schemes[1]>>

\* the positions of the puzzle file: two well-formed fens, the first with
\* White to move, the second with Black to move
Fens == {"fen1", "fen2"}

\* str(chess.Board(fen)), the text chess.svg puts in the <pre> element
BoardText(fen) == IF fen = "fen1" THEN "board1" ELSE "board2"

\* chess.Board(fen).turn
Turn(fen) == fen = "fen1"

\* chess.svg.board(b, coordinates=False): the drawing, one atom per chunk of
\* text; it starts with '<svg ', names the two default square colours and
\* holds the board text between <pre> and </pre>
SvgBoard(fen) ==
    <<"<svg ", "viewBox=...><desc><">> \o Pre \o <<">", BoardText(fen), "<", "/">>
        \o Pre \o <<">", "</desc>", "ffce9e", "d18b47", "</svg>">>

\* str.replace on atoms
Replace(s, old, new) == [k \in 1..Len(s) |-> IF s[k] = old THEN new ELSE s[k]]

\* lines 70-86 of cards.py, numpixels being 380 (the default of line 167)
fen_to_svg_str(fen, colors) ==
    LET s0 == SvgBoard(fen)
        s1 == <<"<svg ", "width=\"380\" height=\"380\" ">> \o Tail(s0)
    IN  Replace(Replace(s1, "ffce9e", colors[1]), "d18b47", colors[2])

\* the solution texts of the puzzle file: "(A)a(B)b"
Solutions == {<<"(", "A", ")", "a", "(", "B", ")", "b">>}

\* the difficulties written in the puzzle file
Difficulties == {"Hard", "medium"}

\* str.lower
Lower(d) == IF d = "Hard" THEN "hard" ELSE d

\* the description the template writes for every card
Description == "Position :"

\* line 279, 281: the deck of a difficulty, deckname being "deck"
DeckName(diff) ==
    IF diff = "easy" THEN <<"deck">> ELSE <<"Hard: ", "deck">>

\* lines 319-325
Front(card, colors) ==
    LET instr == IF Turn(card.fen) THEN "White to move" ELSE "Black to move"
    IN  fen_to_svg_str(card.fen, colors) \o <<"<br><hr3><i>", instr, "</i></hr3>">>

\* lines 327-330: the back once the solution is converted
Back(card, soln) == <<"<b>">> \o soln \o <<"</b>", "<hr>", Description>>

\* ''.join(fields)
JoinFields(fields) == fields[1] \o fields[2]

----------------------------------------------------------------------------
(* cards.py: the puzzle file *)

\* lines 229-236: the template, every field but the description empty
Template == [k \in 1..NumCards |-> [fen |-> None, solution |-> None, difficulty |-> None]]

Complete(rec) == rec.fen # None /\ rec.solution # None

Stopped == script_pc \in {"idle", "exited", "aborted"}

\* the user fills in an empty field of a record that is not yet complete
EditRecord ==
    /\ Stopped
    /\ \E k \in 1..Len(fen_file) :
          /\ ~Complete(fen_file[k])
          /\ \/ /\ fen_file[k].fen = None
                /\ \E f \in Fens :
                      fen_file' = [fen_file EXCEPT ![k].fen = f]
             \/ /\ fen_file[k].solution = None
                /\ \E t \in Solutions :
                      fen_file' = [fen_file EXCEPT ![k].solution = t]
             \/ /\ fen_file[k].difficulty = None
                /\ \E d \in Difficulties :
                      fen_file' = [fen_file EXCEPT ![k].difficulty = d]
    /\ UNCHANGED <<col, colorchoice, runs>>
    /\ UNCHANGED <<list_vars, svg_vars, script_vars>>

----------------------------------------------------------------------------
(* cards.py: one run *)

\* lines 245-257: the script starts and reads the puzzle file
RunStart ==
    /\ Stopped
    /\ runs < MaxRuns
    /\ runs' = runs + 1
    /\ script_pc' = "load"
    /\ puzzle_dict' = fen_file
    /\ idx' = 1
    /\ puzzles' = <<>>
    /\ num_puzzles' = 0
    /\ deck_idx' = 0
    /\ card_set' = {}
    /\ color_i' = 0
    /\ cnt' = 0
    /\ card_idx' = 0
    /\ stdout' = <<>>
    /\ error' = None
    /\ UNCHANGED <<fen_file, col, colorchoice>>
    /\ UNCHANGED <<list_vars, svg_vars>>

\* the place of difficulty diff among the keys of puzzles, 0 if absent
KeyIndex(pz, diff) ==
    IF \E j \in 1..Len(pz) : pz[j].puzztype = diff
    THEN CHOOSE j \in 1..Len(pz) : pz[j].puzztype = diff
    ELSE 0

\* lines 274-283: val is appended to the list of its difficulty, the entry
\* of the difficulty being created on its first puzzle
AddPuzzle(pz, diff, val) ==
    LET j == KeyIndex(pz, diff)
    IN  IF j = 0
        THEN Append(pz, [puzztype |-> diff, deckname |-> DeckName(diff),
                         puzzles |-> <<val>>])
        ELSE [pz EXCEPT ![j].puzzles = Append(@, val)]

\* LoadRecord with the test 'fen is None: continue' moved before the test of a
\* solution with no fen
LoadRecord_SkipsBeforeCheck ==
    /\ script_pc = "load"
    /\ idx <= Len(puzzle_dict)
    /\ LET rec == puzzle_dict[idx]
           val == [fen |-> rec.fen, solution |-> rec.solution, slot |-> idx]
           diff == IF rec.difficulty = None THEN "easy" ELSE Lower(rec.difficulty)
       IN  IF rec.fen = None \/ rec.solution = None
           THEN /\ idx' = idx + 1
                /\ UNCHANGED <<script_pc, error, puzzles, num_puzzles>>
           ELSE IF diff \notin {"easy", "hard"}
           THEN /\ script_pc' = "aborted"
                /\ error' = <<"ValueError", "Expected difficulty to be easy/hard, got ", diff>>
                /\ UNCHANGED <<idx, puzzles, num_puzzles>>
           ELSE /\ num_puzzles' = num_puzzles + 1
                /\ puzzles' = AddPuzzle(puzzles, diff, val)
                /\ idx' = idx + 1
                /\ UNCHANGED <<script_pc, error>>
    /\ UNCHANGED <<puzzle_dict, deck_idx, card_set, color_i, cnt, card_idx, stdout>>
    /\ UNCHANGED <<list_vars, svg_vars, env_vars>>

\* lines 258-283: one iteration of the loading loop; val carries the place
\* of the record in the file
LoadRecord ==
    /\ script_pc = "load"
    /\ idx <= Len(puzzle_dict)
    /\ LET rec == puzzle_dict[idx]
           val == [fen |-> rec.fen, solution |-> rec.solution, slot |-> idx]
           diff == IF rec.difficulty = None THEN "easy" ELSE Lower(rec.difficulty)
       IN  IF rec.solution # None /\ rec.fen = None
           THEN /\ script_pc' = "aborted"
                /\ error' = <<"ValueError", "Solution with no fen: ", Description>>
                /\ UNCHANGED <<idx, puzzles, num_puzzles>>
           ELSE IF rec.fen = None \/ rec.solution = None
           THEN /\ idx' = idx + 1
                /\ UNCHANGED <<script_pc, error, puzzles, num_puzzles>>
           ELSE IF diff \notin {"easy", "hard"}
           THEN /\ script_pc' = "aborted"
                /\ error' = <<"ValueError", "Expected difficulty to be easy/hard, got ", diff>>
                /\ UNCHANGED <<idx, puzzles, num_puzzles>>
           ELSE /\ num_puzzles' = num_puzzles + 1
                /\ puzzles' = AddPuzzle(puzzles, diff, val)
                /\ idx' = idx + 1
                /\ UNCHANGED <<script_pc, error>>
    /\ UNCHANGED <<puzzle_dict, deck_idx, card_set, color_i, cnt, card_idx, stdout>>
    /\ UNCHANGED <<list_vars, svg_vars, env_vars>>

\* line 284
LoadDone ==
    /\ script_pc = "load"
    /\ idx > Len(puzzle_dict)
    /\ stdout' = Append(stdout, <<"Looking at puzzles", num_puzzles>>)
    /\ script_pc' = "decks"
    /\ deck_idx' = 1
    /\ UNCHANGED <<puzzle_dict, idx, puzzles, num_puzzles, card_set, color_i, cnt,
                   card_idx, error>>
    /\ UNCHANGED <<list_vars, svg_vars, env_vars>>

\* col.decks.cids(deck_id) and the fields of each card's note
DeckFields(c, deckname) ==
    {c[n].fields : n \in {m \in 1..Len(c) : c[m].deck = deckname}}

\* lines 286-309: the next deck is selected, the fields of its cards are
\* gathered in card_set and a new colour generator is made
DeckStart ==
    /\ script_pc = "decks"
    /\ deck_idx <= Len(puzzles)
    /\ card_set' = {JoinFields(f) : f \in DeckFields(col, puzzles[deck_idx].deckname)}
    /\ color_i' = 0
    /\ cnt' = 0
    /\ card_idx' = 1
    /\ script_pc' = "cards"
    /\ UNCHANGED <<puzzle_dict, idx, puzzles, num_puzzles, deck_idx, stdout, error>>
    /\ UNCHANGED <<list_vars, svg_vars, env_vars>>

\* lines 310-342: one iteration over the puzzles of the deck; the note
\* carries the place of its record and the run that made it (its tags, which
\* nothing reads back, are left out)
CardStep ==
    /\ script_pc = "cards"
    /\ card_idx <= Len(puzzles[deck_idx].puzzles)
    /\ LET D == puzzles[deck_idx]
           card == D.puzzles[card_idx]
           sc == scriptcolors(colorchoice)
           colors == sc[(color_i % Len(sc)) + 1]
           front == Front(card, colors)
           soln == convert_ordered_list_to_html(card.solution)
           back == Back(card, soln.value)
       IN  /\ color_i' = color_i + 1
           /\ IF soln.raised
              THEN /\ script_pc' = "aborted"
                   /\ error' = <<"RuntimeError">>
                   /\ UNCHANGED <<col, cnt, card_idx>>
              ELSE IF front \o back \in card_set
              THEN /\ card_idx' = card_idx + 1
                   /\ UNCHANGED <<col, cnt, script_pc, error>>
              ELSE /\ col' = Append(col, [deck |-> D.deckname,
                                          fields |-> <<front, back>>,
                                          slot |-> card.slot,
                                          run |-> runs])
                   /\ cnt' = cnt + 1
                   /\ card_idx' = card_idx + 1
                   /\ UNCHANGED <<script_pc, error>>
    /\ UNCHANGED <<puzzle_dict, idx, puzzles, num_puzzles, deck_idx, card_set, stdout>>
    /\ UNCHANGED <<fen_file, colorchoice, runs>>
    /\ UNCHANGED <<list_vars, svg_vars>>

\* lines 344-346
DeckDone ==
    /\ script_pc = "cards"
    /\ card_idx > Len(puzzles[deck_idx].puzzles)
    /\ stdout' = Append(stdout, <<"created cards", cnt, puzzles[deck_idx].puzztype>>)
    /\ deck_idx' = deck_idx + 1
    /\ script_pc' = "decks"
    /\ UNCHANGED <<puzzle_dict, idx, puzzles, num_puzzles, card_set, color_i, cnt,
                   card_idx, error>>
    /\ UNCHANGED <<list_vars, svg_vars, env_vars>>

\* line 348
RunExit ==
    /\ script_pc = "decks"
    /\ deck_idx > Len(puzzles)
    /\ script_pc' = "exited"
    /\ UNCHANGED <<puzzle_dict, idx, puzzles, num_puzzles, deck_idx, card_set,
                   color_i, cnt, card_idx, stdout, error>>
    /\ UNCHANGED <<list_vars, svg_vars, env_vars>>

CardsInit ==
    /\ fen_file = Template
    /\ col = <<>>
    /\ colorchoice \in ColorChoices
    /\ runs = 0
    /\ script_pc = "idle"
    /\ puzzle_dict = <<>>
    /\ idx = 0
    /\ puzzles = <<>>
    /\ num_puzzles = 0
    /\ deck_idx = 0
    /\ card_set = {}
    /\ color_i = 0
    /\ cnt = 0
    /\ card_idx = 0
    /\ stdout = <<>>
    /\ error = None
    /\ ListIdle
    /\ SvgIdle

CardsNext ==
    \/ EditRecord
    \/ RunStart
    \/ LoadRecord
    \/ LoadDone
    \/ DeckStart
    \/ CardStep
    \/ DeckDone
    \/ RunExit

CardsSpec == CardsInit /\ [][CardsNext]_vars

----------------------------------------------------------------------------
(* Properties of cards.py *)

Notes == 1..Len(col)

\* exactly one of fen and solution is given
OneOfTwo(rec) == (rec.fen = None) # (rec.solution = None)

DiffOf(rec) == IF rec.difficulty = None THEN "easy" ELSE Lower(rec.difficulty)

\* a line of the output that warns about record k
Warned(k) == \E m \in 1..Len(stdout) : stdout[m][1] = "warning" /\ stdout[m][2] = k

\* the deck of rec holds a card showing the board of rec with the converted
\* solution of rec on its back
HasCard(rec) ==
    \E n \in Notes :
        /\ col[n].deck = DeckName(DiffOf(rec))
        /\ svg_str_to_board_state(col[n].fields[1]).value = <<BoardText(rec.fen)>>
        /\ col[n].fields[2] = Back(rec, convert_ordered_list_to_html(rec.solution).value)

\* duplicate_finder.py lines 32-35
Fingerprint(fields) ==
    <<svg_str_to_board_state(fields[1]).value, strip_accents(fields[2])>>

Records == 1..Len(puzzle_dict)

\* C7 as stated: no card is inserted for a record missing its fen or its
\* solution; a record with exactly one of the two is warned about, and the
\* complete records of the file are still processed.
C7_OneOfTwoWarned ==
    /\ \A n \in Notes : Complete(fen_file[col[n].slot])
    /\ script_pc \in {"exited", "aborted"} =>
          \A k \in Records :
              OneOfTwo(puzzle_dict[k]) =>
                  /\ Warned(k)
                  /\ \A j \in Records :
                        Complete(puzzle_dict[j]) => HasCard(puzzle_dict[j])

\* C7 amended: no card is ever inserted for a record missing its fen or its
\* solution.  A record with a fen and no solution is dropped silently: the
\* script prints nothing but the count of puzzles and the counts of created
\* cards, and a run that exits has counted every complete record and holds a
\* card for each.  A record with a solution and no fen is an error, not a
\* warning: the loader raises ValueError, no card is inserted in that run,
\* and a run gets past the loader only when the file holds no such record.
C7_IncompleteExcluded ==
    /\ \A n \in Notes : Complete(fen_file[col[n].slot])
    /\ \A m \in 1..Len(stdout) : stdout[m][1] \in {"Looking at puzzles", "created cards"}
    /\ script_pc \in {"decks", "cards", "exited"} =>
          /\ \A k \in Records :
                ~(puzzle_dict[k].solution # None /\ puzzle_dict[k].fen = None)
          /\ num_puzzles = Cardinality({k \in Records : Complete(puzzle_dict[k])})
    /\ script_pc = "exited" =>
          \A k \in Records : Complete(puzzle_dict[k]) => HasCard(puzzle_dict[k])
    /\ script_pc = "aborted" =>
          /\ error[1] = "ValueError"
          /\ \A n \in Notes : col[n].run # runs
          /\ \/ puzzle_dict[idx].solution # None /\ puzzle_dict[idx].fen = None
             \/ Complete(puzzle_dict[idx]) /\ DiffOf(puzzle_dict[idx]) \notin {"easy", "hard"}

\* a run has exited on a file with a record that has a fen and no solution,
\* and has inserted the card of a complete record
C7_Witness ==
    /\ script_pc = "exited"
    /\ \E k \in Records : puzzle_dict[k].fen # None /\ puzzle_dict[k].solution = None
    /\ \E n \in Notes : col[n].run = runs

\* C8: a record whose card has the fingerprint of a card of the deck is
\* skipped, so a deck never holds two cards with equal fingerprints.
C8_NoEqualFingerprints ==
    \A a, b \in Notes :
        (a # b /\ col[a].deck = col[b].deck)
            => Fingerprint(col[a].fields) # Fingerprint(col[b].fields)

\* C9: with the colour scheme 'all', a later run inserts no card for a record
\* for which an earlier run has inserted one.
C9_NoCardTwiceForRecord ==
    colorchoice = "all" =>
        \A a, b \in Notes :
            col[a].slot = col[b].slot => col[a].run = col[b].run

====
